---- MODULE Spec2Model ----
(***************************************************************************)
(* Model of checks/open_api_check.py: the checker that reads the file      *)
(* openapi.json, counts the missing or blank descriptions in it, prints a  *)
(* report and sets the exit code of the process.                           *)
(*                                                                         *)
(* Python strings that are stripped or concatenated (descriptions, the     *)
(* directory, the file name) are sequences of one-character strings.  A    *)
(* JSON object is a function whose domain is the set of its keys, so that  *)
(* `key in obj` is `key \in DOMAIN obj`.  A call returns a record          *)
(* [exc, val, out]: the exception it raised ("none" when it returned), the *)
(* value it returned and the lines it printed.                             *)
(***************************************************************************)
EXTENDS Integers, Sequences, FiniteSets, TLC

VARIABLES
    pc,         \* position of main: start, args, checked, reported, done, crashed
    args,       \* the parsed command line: directory, verbose, nocolors
    file,       \* content of the file the run opens
    filename,   \* name of the file check_openapi_json opened
    passes,     \* counter returned by check_openapi_json
    failures,   \* counter returned by check_openapi_json
    out,        \* lines printed on standard output
    exitcode,   \* <<>> while the process runs, <<code>> once it has exited
    calls,      \* checks started by check_openapi_json, with their results
    op_in,      \* operation object handed to the parameters check on its own
    op_ret      \* what the parameters check returned for it

vars == <<pc, args, file, filename, passes, failures, out, exitcode, calls,
          op_in, op_ret>>

----------------------------------------------------------------------------
(* Bounds of the inputs *)

\* longest `parameters` sequence of an operation
MaxParams == 2
\* largest counter value handed to display_report on its own
MaxCount == 3

----------------------------------------------------------------------------
(* Inputs *)

\* characters str.strip() removes
Whitespace == {" ", "\t", "\n"}

\* description texts: empty, whitespace only, text between whitespace
Texts == {<<>>, <<" ", "\t">>, <<" ", "d", " ">>}

\* a JSON object with the optional key `key`
Opt(key, vals) == {<<>>} \cup {key :> v : v \in vals}

ParamNames == {"id"}
PathNames == <<"/a", "/b">>
MethodNames == <<"get", "post">>
ResponseCodes == <<"200">>

\* every JSON object whose keys are among those of `names`
Mappings(names, vals) ==
    UNION {[S -> vals] : S \in SUBSET {names[i] : i \in 1..Len(names)}}

ParameterObjects ==
    {n @@ d : n \in Opt("name", ParamNames), d \in Opt("description", Texts)}

\* the `parameters` sequences of at most n parameters
ParameterLists(n) == UNION {[1..k -> ParameterObjects] : k \in 0..n}

ResponseObjects == Opt("description", Texts)

\* operations in depth: a description with up to MaxParams parameters, or
\* with up to one parameter and any responses
Operations ==
    {d @@ p : d \in Opt("description", Texts),
              p \in Opt("parameters", ParameterLists(MaxParams))}
    \cup
    {d @@ p @@ r : d \in Opt("description", Texts),
                   p \in Opt("parameters", ParameterLists(1)),
                   r \in Opt("responses", Mappings(ResponseCodes, ResponseObjects))}

\* operations that carry at most a description
PlainOperations == Opt("description", Texts)

\* one path with one method and any operation under it
DeepPaths == {PathNames[1] :> (MethodNames[1] :> m) : m \in Operations}

\* any paths with any methods, each a plain operation
WidePaths == Mappings(PathNames, Mappings(MethodNames, PlainOperations))

InfoObjects == Opt("description", Texts)

Documents ==
    {i @@ p : i \in Opt("info", InfoObjects),
              p \in Opt("paths", DeepPaths \cup WidePaths)}

\* what the opened file holds: nothing (it does not exist), text that is not
\* JSON, the JSON value null, or a JSON object
Files ==
    {[kind |-> "missing"], [kind |-> "invalid"], [kind |-> "null"]}
        \cup {[kind |-> "object", val |-> d] : d \in Documents}

Directories == {<<".", "/">>, <<"d", "/">>, <<"d">>}

\* argparse: store_true with default None
Flags == {"None", "True"}

\* what `tput` prints: control codes on a colour terminal, nothing elsewhere
Terminals ==
    {[op \in {"setab 1", "setab 2", "setab 5", "sgr0"} |-> "ESC " \o op],
     [op \in {"setab 1", "setab 2", "setab 5", "sgr0"} |-> ""]}

----------------------------------------------------------------------------
(* Results of calls *)

Ok(v, o) == [exc |-> "none", val |-> v, out |-> o]
Raise(e, o) == [exc |-> e, val |-> 0, out |-> o]

\* `failures += f(...)`: the call's value is added unless it raised
Add(acc, r) ==
    IF acc.exc # "none" THEN acc
    ELSE IF r.exc # "none" THEN Raise(r.exc, acc.out \o r.out)
    ELSE Ok(acc.val + r.val, acc.out \o r.out)

\* the keys of a mapping in the order of the document
Keys(names, mapping) == SelectSeq(names, LAMBDA k : k \in DOMAIN mapping)

----------------------------------------------------------------------------
(* Attribute checker *)

RECURSIVE lstrip(_)
lstrip(s) ==
    IF Len(s) > 0 /\ Head(s) \in Whitespace THEN lstrip(Tail(s)) ELSE s

RECURSIVE rstrip(_)
rstrip(s) ==
    IF Len(s) > 0 /\ s[Len(s)] \in Whitespace
    THEN rstrip(SubSeq(s, 1, Len(s) - 1))
    ELSE s

\* str.strip()
strip(s) == rstrip(lstrip(s))

\* the comparison without the strip
empty_attribute_unstripped(node, selector) == node[selector] = <<>>

empty_attribute(node, selector) == strip(node[selector]) = <<>>

----------------------------------------------------------------------------
(* Node validators *)

check_info_node(obj, verbose) ==
    LET o == IF verbose # "None" THEN <<<<"checking info node">>>> ELSE <<>>
    IN  IF obj.kind = "null"
        THEN Ok(1, Append(o, <<"Empty object has been deserialized">>))
        ELSE IF "info" \notin DOMAIN obj.val
        THEN Ok(1, Append(o, <<"Info node can't be found">>))
        ELSE LET info == obj.val["info"]
             IN  IF "description" \notin DOMAIN info
                 THEN Ok(1, Append(o, <<"No description provided for the whole file">>))
                 ELSE IF empty_attribute(info, "description")
                 THEN Ok(1, Append(o, <<"Empty description provided for the whole file">>))
                 ELSE Ok(0, o)

check_description_for_method(path, method, m) ==
    IF "description" \notin DOMAIN m
    THEN Ok(1, <<<<"No description found for endpoint", path, "method", method>>>>)
    ELSE IF empty_attribute(m, "description")
    THEN Ok(1, <<<<"Empty description found for endpoint", path, "method", method>>>>)
    ELSE Ok(0, <<>>)

\* the diagnostic of one parameter: parameter["name"] raises KeyError when the
\* parameter has no name
ParameterDiagnostic(text, path, method, parameter) ==
    IF "name" \notin DOMAIN parameter
    THEN Raise("KeyError", <<>>)
    ELSE Ok(1, <<<<text, path, "method", method, "parameter", parameter["name"]>>>>)

\* the body of `for parameter in parameters`, from the i-th parameter on
RECURSIVE ParametersLoop(_, _, _, _, _)
ParametersLoop(path, method, parameters, i, acc) ==
    IF i > Len(parameters) \/ acc.exc # "none" THEN acc
    ELSE LET parameter == parameters[i]
             step ==
                 IF "description" \notin DOMAIN parameter
                 THEN ParameterDiagnostic("No description found for endpoint",
                                          path, method, parameter)
                 ELSE IF empty_attribute(parameter, "description")
                 THEN ParameterDiagnostic("Empty description found for endpoint",
                                          path, method, parameter)
                 ELSE Ok(0, <<>>)
         IN  ParametersLoop(path, method, parameters, i + 1, Add(acc, step))

check_description_for_method_parameters(path, method, m) ==
    IF "parameters" \in DOMAIN m
    THEN ParametersLoop(path, method, m["parameters"], 1, Ok(0, <<>>))
    ELSE Ok(0, <<>>)

\* the body of `for response in responses`, over the keys still to visit
RECURSIVE ResponsesLoop(_, _, _, _, _)
ResponsesLoop(path, method, responses, keys, acc) ==
    IF keys = <<>> THEN acc
    ELSE LET response == Head(keys)
             r == responses[response]
             step ==
                 IF "description" \notin DOMAIN r
                 THEN Ok(1, <<<<"No description found for endpoint", path,
                                "method", method, "response", response>>>>)
                 ELSE IF empty_attribute(r, "description")
                 THEN Ok(1, <<<<"Empty description found for endpoint", path,
                                "method", method, "response", response>>>>)
                 ELSE Ok(0, <<>>)
         IN  ResponsesLoop(path, method, responses, Tail(keys), Add(acc, step))

check_description_for_method_responses(path, method, m) ==
    IF "responses" \in DOMAIN m
    THEN ResponsesLoop(path, method, m["responses"],
                       Keys(ResponseCodes, m["responses"]), Ok(0, <<>>))
    ELSE Ok(0, <<>>)

----------------------------------------------------------------------------
(* Traversal driver *)

check_method(path, method, methods, verbose) ==
    LET o == IF verbose # "None" THEN <<<<"checking method", method>>>> ELSE <<>>
        m == methods[method]
    IN  Add(Add(Add(Ok(0, o),
                    check_description_for_method(path, method, m)),
                check_description_for_method_parameters(path, method, m)),
            check_description_for_method_responses(path, method, m))

\* the body of `for method in methods`, over the keys still to visit
RECURSIVE MethodsLoop(_, _, _, _, _)
MethodsLoop(path, methods, keys, verbose, acc) ==
    IF keys = <<>> \/ acc.exc # "none" THEN acc
    ELSE MethodsLoop(path, methods, Tail(keys), verbose,
                     Add(acc, check_method(path, Head(keys), methods, verbose)))

check_path(path, methods, verbose) ==
    LET o == IF verbose # "None" THEN <<<<"checking path", path>>>> ELSE <<>>
    IN  MethodsLoop(path, methods, Keys(MethodNames, methods), verbose, Ok(0, o))

\* the body of `for path in paths`, over the keys still to visit
RECURSIVE PathsLoop(_, _, _, _)
PathsLoop(paths, keys, verbose, acc) ==
    IF keys = <<>> \/ acc.exc # "none" THEN acc
    ELSE PathsLoop(paths, Tail(keys), verbose,
                   Add(acc, check_path(Head(keys), paths[Head(keys)], verbose)))

check_all_paths(obj, verbose) ==
    LET o == IF verbose # "None"
             THEN <<<<"checking all paths found in OpenAPI file">>>>
             ELSE <<>>
    IN  IF obj.kind = "null" THEN Raise("TypeError", o)
        ELSE IF "paths" \notin DOMAIN obj.val THEN Raise("KeyError", o)
        ELSE PathsLoop(obj.val["paths"], Keys(PathNames, obj.val["paths"]),
                       verbose, Ok(0, o))

\* the literal "openapi.json"
FileName == <<"o", "p", "e", "n", "a", "p", "i", ".", "j", "s", "o", "n">>

\* json.load: ValueError on text that is not JSON, else the value
load(fin) ==
    IF fin.kind = "invalid" THEN Raise("ValueError", <<>>) ELSE Ok(fin, <<>>)

\* the record of one check started by check_openapi_json
Call(fn, r) == [fn |-> fn, exc |-> r.exc, ret |-> r.val]

\* a pass counted whatever the failures
CountPass_always(p, f) == p + 1

\* no pass ever counted
CountPass_never(p, f) == p

\* if failures == 0: passes += 1
CountPass(p, f) == IF f = 0 THEN p + 1 ELSE p

\* the body of the `try`: the counters, the lines printed and the checks
\* started up to the point where it ended or raised
TryBody(fin, name, verbose) ==
    LET l == load(fin)
        o == IF verbose # "None" THEN <<<<"has valid JSON format", name>>>> ELSE <<>>
        i == check_info_node(l.val, verbose)
        a == check_all_paths(l.val, verbose)
        f == Add(Add(Ok(0, o), i), a)
    IN  IF l.exc # "none"
        THEN [exc |-> l.exc, passes |-> 0, failures |-> 0, out |-> <<>>,
              calls |-> <<>>]
        ELSE IF i.exc # "none"
        THEN [exc |-> i.exc, passes |-> 0, failures |-> 0, out |-> f.out,
              calls |-> <<Call("check_info_node", i)>>]
        ELSE IF a.exc # "none"
        THEN [exc |-> a.exc, passes |-> 0, failures |-> i.val, out |-> f.out,
              calls |-> <<Call("check_info_node", i), Call("check_all_paths", a)>>]
        ELSE [exc |-> "none",
              passes |-> CountPass(0, f.val),
              failures |-> f.val, out |-> f.out,
              calls |-> <<Call("check_info_node", i), Call("check_all_paths", a)>>]

\* the handler without its `failures += 1`
ExceptValueError_uncounted(t, name) ==
    [exc |-> "none", passes |-> t.passes, failures |-> t.failures,
     out |-> t.out \o <<<<"has invalid JSON format", name>>, <<"JSONDecodeError">>>>,
     calls |-> t.calls, filename |-> name]

\* the `except ValueError` block: one more failure and two lines
ExceptValueError(t, name) ==
    [exc |-> "none", passes |-> t.passes, failures |-> t.failures + 1,
     out |-> t.out \o <<<<"has invalid JSON format", name>>, <<"JSONDecodeError">>>>,
     calls |-> t.calls, filename |-> name]

\* open() raises OSError when the file is missing; ValueError is handled, any
\* other exception leaves the function
check_openapi_json(verbose, directory, fin) ==
    LET name == directory \o FileName
        t == TryBody(fin, name, verbose)
    IN  IF fin.kind = "missing"
        THEN [exc |-> "OSError", passes |-> 0, failures |-> 0, out |-> <<>>,
              calls |-> <<>>, filename |-> name]
        ELSE IF t.exc = "ValueError"
        THEN ExceptValueError(t, name)
        ELSE [exc |-> t.exc, passes |-> t.passes, failures |-> t.failures,
              out |-> t.out, calls |-> t.calls, filename |-> name]

----------------------------------------------------------------------------
(* Report builder *)

\* popen("tput " + operation).readline() on the terminal `tput`
read_control_code(tput, operation) == tput[operation]

\* the report that looks at passes before failures
display_report_passes_first(p, f, nocolors, tput) ==
    LET colors == nocolors = "None"
        red_background == IF colors THEN read_control_code(tput, "setab 1") ELSE ""
        green_background == IF colors THEN read_control_code(tput, "setab 2") ELSE ""
        magenta_background == IF colors THEN read_control_code(tput, "setab 5") ELSE ""
        no_color == IF colors THEN read_control_code(tput, "sgr0") ELSE ""
        banner ==
            IF p = 0
            THEN IF f = 0
                 THEN <<magenta_background, "[WARN]", no_color,
                        ": no JSON files with OpenAPI detected">>
                 ELSE <<red_background, "[FAIL]", no_color,
                        ": file with invalid format and/or content detected">>
            ELSE <<green_background, "[OK]", no_color,
                   ": OpenAPI file seems to have proper format and content">>
    IN  <<banner, <<ToString(p), "passes">>, <<ToString(f), "failures">>>>

display_report(p, f, nocolors, tput) ==
    LET colors == nocolors = "None"
        red_background == IF colors THEN read_control_code(tput, "setab 1") ELSE ""
        green_background == IF colors THEN read_control_code(tput, "setab 2") ELSE ""
        magenta_background == IF colors THEN read_control_code(tput, "setab 5") ELSE ""
        no_color == IF colors THEN read_control_code(tput, "sgr0") ELSE ""
        banner ==
            IF f = 0
            THEN IF p = 0
                 THEN <<magenta_background, "[WARN]", no_color,
                        ": no JSON files with OpenAPI detected">>
                 ELSE <<green_background, "[OK]", no_color,
                        ": OpenAPI file seems to have proper format and content">>
            ELSE <<red_background, "[FAIL]", no_color,
                   ": file with invalid format and/or content detected">>
    IN  <<banner, <<ToString(p), "passes">>, <<ToString(f), "failures">>>>

----------------------------------------------------------------------------
(* Entry point *)

\* parser.parse_args(): -d, -v and -n as given on the command line
ParseArgs ==
    /\ pc = "start"
    /\ \E d \in Directories, v \in Flags, n \in Flags :
           args' = [directory |-> d, verbose |-> v, nocolors |-> n]
    /\ pc' = "args"
    /\ UNCHANGED <<file, filename, passes, failures, out, exitcode, calls,
                   op_in, op_ret>>

\* passes, failures = check_openapi_json(args.verbose, args.directory); an
\* exception that leaves it ends the process with a traceback and status 1
CheckOpenapiJson ==
    /\ pc = "args"
    /\ LET r == check_openapi_json(args.verbose, args.directory, file)
       IN  /\ filename' = r.filename
           /\ out' = out \o r.out
           /\ calls' = r.calls
           /\ IF r.exc = "none"
              THEN /\ passes' = r.passes
                   /\ failures' = r.failures
                   /\ pc' = "checked"
                   /\ UNCHANGED exitcode
              ELSE /\ pc' = "crashed"
                   /\ exitcode' = <<1>>
                   /\ UNCHANGED <<passes, failures>>
    /\ UNCHANGED <<args, file, op_in, op_ret>>

\* display_report(passes, failures, args.nocolors)
DisplayReport ==
    /\ pc = "checked"
    /\ \E tput \in Terminals :
           out' = out \o display_report(passes, failures, args.nocolors, tput)
    /\ pc' = "reported"
    /\ UNCHANGED <<args, file, filename, passes, failures, exitcode, calls,
                   op_in, op_ret>>

\* exit(1) only from the second failure on
ExitStatus_above_one(f) == IF f > 1 THEN 1 ELSE 0

\* exit(1) when a failure was counted, else main returns and the status is 0
ExitStatus(f) == IF f > 0 THEN 1 ELSE 0

\* if failures > 0: exit(1)
Exit ==
    /\ pc = "reported"
    /\ exitcode' = <<ExitStatus(failures)>>
    /\ pc' = "done"
    /\ UNCHANGED <<args, file, filename, passes, failures, out, calls,
                   op_in, op_ret>>

DefaultArgs == [directory |-> <<".", "/">>, verbose |-> "None", nocolors |-> "None"]

Init ==
    /\ pc = "start"
    /\ args = DefaultArgs
    /\ file \in Files
    /\ filename = <<>>
    /\ passes = 0
    /\ failures = 0
    /\ out = <<>>
    /\ exitcode = <<>>
    /\ calls = <<>>
    /\ op_in = <<>>
    /\ op_ret = Ok(0, <<>>)

Next == ParseArgs \/ CheckOpenapiJson \/ DisplayReport \/ Exit

Spec == Init /\ [][Next]_vars

----------------------------------------------------------------------------
(* display_report on its own, for every pair of counters *)

InitReport ==
    /\ pc = "checked"
    /\ args \in [directory : Directories, verbose : Flags, nocolors : Flags]
    /\ file = [kind |-> "missing"]
    /\ filename = <<>>
    /\ passes \in 0..MaxCount
    /\ failures \in 0..MaxCount
    /\ out = <<>>
    /\ exitcode = <<>>
    /\ calls = <<>>
    /\ op_in = <<>>
    /\ op_ret = Ok(0, <<>>)

NextReport == DisplayReport \/ Exit

SpecReport == InitReport /\ [][NextReport]_vars

----------------------------------------------------------------------------
(* check_description_for_method_parameters on its own, for every operation *)

CheckParameters ==
    /\ pc = "call"
    /\ \E path \in {PathNames[i] : i \in 1..Len(PathNames)},
          method \in {MethodNames[i] : i \in 1..Len(MethodNames)} :
           op_ret' = check_description_for_method_parameters(path, method, op_in)
    /\ pc' = "called"
    /\ UNCHANGED <<args, file, filename, passes, failures, out, exitcode, calls,
                   op_in>>

InitParameters ==
    /\ pc = "call"
    /\ args = DefaultArgs
    /\ file = [kind |-> "missing"]
    /\ filename = <<>>
    /\ passes = 0
    /\ failures = 0
    /\ out = <<>>
    /\ exitcode = <<>>
    /\ calls = <<>>
    /\ op_in \in Operations
    /\ op_ret = Ok(0, <<>>)

NextParameters == CheckParameters

SpecParameters == InitParameters /\ [][NextParameters]_vars

----------------------------------------------------------------------------
(* What the checks are expected to count, stated on the document itself *)

\* a string that is empty or holds only whitespace
Blank(s) == \A i \in 1..Len(s) : s[i] \in Whitespace

\* a node whose description is missing or blank
Undescribed(node) ==
    "description" \notin DOMAIN node \/ Blank(node["description"])

\* the parameters of an operation whose description is missing or blank
UndescribedParameters(m) ==
    IF "parameters" \in DOMAIN m
    THEN {i \in 1..Len(m["parameters"]) : Undescribed(m["parameters"][i])}
    ELSE {}

\* the responses of an operation whose description is missing or blank
UndescribedResponses(m) ==
    IF "responses" \in DOMAIN m
    THEN {c \in DOMAIN m["responses"] : Undescribed(m["responses"][c])}
    ELSE {}

OperationTotal(m) ==
    (IF Undescribed(m) THEN 1 ELSE 0)
        + Cardinality(UndescribedParameters(m))
        + Cardinality(UndescribedResponses(m))

\* the (path, method) pairs of a `paths` mapping
Endpoints(paths) ==
    UNION {{<<p, k>> : k \in DOMAIN paths[p]} : p \in DOMAIN paths}

RECURSIVE SumOver(_, _)
SumOver(endpoints, paths) ==
    IF endpoints = {} THEN 0
    ELSE LET e == CHOOSE x \in endpoints : TRUE
         IN  OperationTotal(paths[e[1]][e[2]]) + SumOver(endpoints \ {e}, paths)

PathsTotal(paths) == SumOver(Endpoints(paths), paths)

\* what the info node of a parsed file is expected to count
InfoTotal(f) ==
    IF f.kind = "null" THEN 1
    ELSE IF "info" \notin DOMAIN f.val THEN 1
    ELSE IF Undescribed(f.val["info"]) THEN 1
    ELSE 0

Parsed == file.kind \in {"null", "object"}
Returned == pc \in {"checked", "reported", "done"}
Called == pc \in {"checked", "reported", "done", "crashed"}
IsBanner(line, tag) == Len(line) = 4 /\ line[2] = tag
Tags == {"[WARN]", "[OK]", "[FAIL]"}

\* the last three lines printed are a banner and the two summary lines
ReportDisplayed ==
    /\ Len(out) >= 3
    /\ \E tag \in Tags : IsBanner(out[Len(out) - 2], tag)
    /\ out[Len(out) - 1] = <<ToString(passes), "passes">>
    /\ out[Len(out)] = <<ToString(failures), "failures">>

\* the file named openapi.json inside the directory
InDirectory(directory) ==
    IF Len(directory) > 0 /\ directory[Len(directory)] = "/"
    THEN directory \o FileName
    ELSE directory \o <<"/">> \o FileName

----------------------------------------------------------------------------
(* Claims *)

\* C1: when the content of openapi.json is not valid JSON, check_openapi_json
\* returns passes = 0 and failures = 1 without starting the info-node check
\* or the all-paths check, and main ends with exit code 1.
C1_InvalidJsonIsOneFailure ==
    file.kind = "invalid" =>
        /\ pc # "crashed"
        /\ Returned => passes = 0 /\ failures = 1 /\ calls = <<>>
        /\ pc = "done" => exitcode = <<1>>

C1_Witness == file.kind = "invalid" /\ pc = "done" /\ exitcode = <<1>>

\* C2: when main reaches its end, the exit code is 0 exactly when failures is
\* zero and 1 when a failure was counted, and the report was printed before
\* the exit code was set.
C2_ExitCodeFollowsFailures ==
    /\ pc = "done" =>
           /\ exitcode = <<0>> <=> failures = 0
           /\ failures >= 1 => exitcode = <<1>>
           /\ ReportDisplayed
    /\ pc \in {"start", "args", "checked", "reported"} => exitcode = <<>>

C2_WitnessFailed == pc = "done" /\ failures >= 1 /\ exitcode = <<1>>

\* C3: a problem in a file that parses as JSON never aborts the run:
\* check_openapi_json prints a diagnostic, counts the failure and returns.
C3_ParsedFileNeverAborts ==
    (Parsed /\ Called) =>
        /\ pc # "crashed"
        /\ failures >= InfoTotal(file)

\* C4: for a parsed document with a `paths` mapping, check_all_paths returns
\* the number of missing or blank descriptions of all operations, parameters
\* and responses under all paths: nothing is skipped after a failure.
C4_AllPathsTotal ==
    (file.kind = "object" /\ "paths" \in DOMAIN file.val /\ Called) =>
        \E i \in 1..Len(calls) :
            /\ calls[i].fn = "check_all_paths"
            /\ calls[i].exc = "none"
            /\ calls[i].ret = PathsTotal(file.val["paths"])

\* C5: when the file parses and check_openapi_json returns, failures is the
\* result of the info-node check plus the all-paths total, and passes is 1 if
\* that sum is zero and 0 otherwise.
C5_CountersOnParseSuccess ==
    (Parsed /\ Returned) =>
        /\ Len(calls) = 2
        /\ calls[1].fn = "check_info_node"
        /\ calls[2].fn = "check_all_paths"
        /\ failures = calls[1].ret + calls[2].ret
        /\ failures = InfoTotal(file) + PathsTotal(file.val["paths"])
        /\ passes = IF failures = 0 THEN 1 ELSE 0

C5_WitnessFail == Parsed /\ Returned /\ failures >= 3

\* C6: check_info_node returns 1 for a null document, a missing `info`, a
\* missing `info.description` and a blank `info.description`, and 0 otherwise;
\* a document without `info` gets exactly 1 failure from it whatever else is
\* wrong with the document.
C6_InfoNodeCountsAtMostOne ==
    (Parsed /\ Called) =>
        /\ Len(calls) >= 1
        /\ calls[1].fn = "check_info_node"
        /\ calls[1].exc = "none"
        /\ calls[1].ret \in {0, 1}
        /\ calls[1].ret = InfoTotal(file)
        /\ (file.kind = "object" /\ "info" \notin DOMAIN file.val /\ Returned) =>
               /\ calls[1].ret = 1
               /\ failures = 1 + PathsTotal(file.val["paths"])

C6_Witness ==
    /\ file.kind = "object"
    /\ "info" \in DOMAIN file.val
    /\ "description" \in DOMAIN file.val["info"]
    /\ file.val["info"]["description"] = <<" ", "\t">>
    /\ Returned
    /\ calls[1].ret = 1

\* C7: display_report prints exactly one banner, [FAIL] exactly when
\* failures > 0, [OK] exactly when failures = 0 and passes >= 1, [WARN]
\* exactly when both are 0, followed by "<passes> passes" and
\* "<failures> failures" in that order.
C7_OneBannerThenSummary ==
    pc \in {"reported", "done"} =>
        /\ Len(out) = 3
        /\ Cardinality({t \in Tags : IsBanner(out[1], t)}) = 1
        /\ IsBanner(out[1], "[FAIL]") <=> failures > 0
        /\ IsBanner(out[1], "[OK]") <=> (failures = 0 /\ passes >= 1)
        /\ IsBanner(out[1], "[WARN]") <=> (passes = 0 /\ failures = 0)
        /\ out[2] = <<ToString(passes), "passes">>
        /\ out[3] = <<ToString(failures), "failures">>

C7_Witness ==
    pc = "reported" /\ passes >= 2 /\ failures >= 2 /\ IsBanner(out[1], "[FAIL]")

\* C8: the parameters check returns the number of parameters whose
\* description is missing or blank, and 0 for an operation without
\* `parameters`.
C8_ParametersCount ==
    pc = "called" =>
        /\ op_ret.exc = "none"
        /\ op_ret.val = Cardinality(UndescribedParameters(op_in))

\* C9: check_openapi_json opens the file named openapi.json inside the
\* directory given by -d, with or without a trailing path separator.
C9_OpensFileInDirectory ==
    Returned => filename = InDirectory(args.directory)

\* C10: check_openapi_json returns passes in {0, 1} with passes = 1 exactly
\* when failures = 0, never (0, 0), so that no run prints the [WARN] banner.
C10_NeverZeroZero ==
    Returned =>
        /\ passes \in {0, 1}
        /\ passes = 1 <=> failures = 0
        /\ ~(passes = 0 /\ failures = 0)
        /\ \A i \in 1..Len(out) : ~IsBanner(out[i], "[WARN]")

C10_Witness ==
    pc = "done" /\ passes = 0 /\ failures = 1 /\ IsBanner(out[Len(out) - 2], "[FAIL]")

====
